---- MODULE Spec2Model ----
(***************************************************************************)
(* Model of filter_clearinghouse_data.py: main() reads a CSV into a table  *)
(* of text cells, checks the header, derives the comparison columns,       *)
(* filters in two stages and writes an eleven-column projection.           *)
(*                                                                         *)
(* A text is a sequence of one-character strings, so that upper-casing,    *)
(* trimming and numeric parsing are computed character by character.       *)
(* A cell of a DataFrame is <<"NaN">>, <<"str", text>>, <<"int", m>> or    *)
(* <<"float", m, e>> (the number m / 10^e).                                *)
(***************************************************************************)
EXTENDS Integers, Sequences, FiniteSets, TLC

VARIABLES
    input,      \* the CSV file's table: [header, rows], every cell a text
    ioFault,    \* the I/O operation of a run that fails (0: none does)
    pc,         \* per run: position in main()
    df,         \* per run: the DataFrame df
    df_final,   \* per run: the DataFrame df_final
    outFile,    \* per run: clearinghouse_filtered_output.csv on disk
    error,      \* per run: the exception main() ended with, or NoError
    stdout,     \* per run: the lines printed
    ioCount,    \* per run: I/O operations attempted so far
    trace       \* per run: the steps of main() executed, in order

vars == <<input, ioFault, pc, df, df_final, outFile, error, stdout, ioCount, trace>>

----------------------------------------------------------------------------
(* Bounds of the model *)

MaxRows == 2

----------------------------------------------------------------------------
(* Column names, lines 26-36 *)

COL_FIRST_NAME       == "First Name"
COL_MIDDLE_NAME      == "Middle Initial"
COL_LAST_NAME        == "Last Name"
COL_REQUESTER_ID     == "Requester Return Field"
COL_COLLEGE_NAME     == "College Name"
COL_ENROLLMENT_MAJOR == "Enrollment Major 1"
COL_CLASS_LEVEL      == "Class Level"
COL_ENROLL_STATUS    == "Enrollment Status"
COL_ENROLL_DATE      == "Enrollment End"
COL_COLLEGE_SEQ      == "College Sequence"
COL_GRADUATED        == "Graduated?"

STATUS_NORM == "_status_norm"
GRAD_NORM   == "_grad_norm"

\* A mutant of required_cols: the check forgets Graduated?.
required_cols_short ==
    << COL_FIRST_NAME, COL_MIDDLE_NAME, COL_LAST_NAME, COL_REQUESTER_ID,
       COL_COLLEGE_NAME, COL_ENROLLMENT_MAJOR, COL_CLASS_LEVEL,
       COL_ENROLL_STATUS, COL_ENROLL_DATE, COL_COLLEGE_SEQ >>

required_cols ==
    << COL_FIRST_NAME, COL_MIDDLE_NAME, COL_LAST_NAME, COL_REQUESTER_ID,
       COL_COLLEGE_NAME, COL_ENROLLMENT_MAJOR, COL_CLASS_LEVEL,
       COL_ENROLL_STATUS, COL_ENROLL_DATE, COL_COLLEGE_SEQ, COL_GRADUATED >>

\* A mutant of output_cols: the projection is left out, every column of
\* df_final is written in the frame's own order.
output_cols_all ==
    << COL_FIRST_NAME, COL_MIDDLE_NAME, COL_LAST_NAME, COL_REQUESTER_ID,
       COL_COLLEGE_NAME, COL_ENROLLMENT_MAJOR, COL_CLASS_LEVEL,
       COL_ENROLL_STATUS, COL_ENROLL_DATE, COL_COLLEGE_SEQ, COL_GRADUATED,
       STATUS_NORM, GRAD_NORM >>

output_cols ==
    << COL_FIRST_NAME, COL_MIDDLE_NAME, COL_LAST_NAME, COL_REQUESTER_ID,
       COL_COLLEGE_NAME, COL_ENROLLMENT_MAJOR, COL_CLASS_LEVEL,
       COL_ENROLL_STATUS, COL_ENROLL_DATE, COL_COLLEGE_SEQ, COL_GRADUATED >>

----------------------------------------------------------------------------
(* Sequences and texts *)

Range(s) == { s[i] : i \in DOMAIN s }

LowerChars == << "a","b","c","d","e","f","g","h","i","j","k","l","m",
                 "n","o","p","q","r","s","t","u","v","w","x","y","z" >>
UpperChars == << "A","B","C","D","E","F","G","H","I","J","K","L","M",
                 "N","O","P","Q","R","S","T","U","V","W","X","Y","Z" >>
DigitChars == << "0","1","2","3","4","5","6","7","8","9" >>
SpaceChars == { " ", "\t" }

\* str.upper() on one character
UpperChar(c) ==
    IF c \in Range(LowerChars)
    THEN UpperChars[CHOOSE i \in DOMAIN LowerChars : LowerChars[i] = c]
    ELSE c

\* str.upper() on a text
UpperText(t) == [ i \in DOMAIN t |-> UpperChar(t[i]) ]

RECURSIVE LStrip(_)
LStrip(t) ==
    IF t # <<>> /\ Head(t) \in SpaceChars THEN LStrip(Tail(t)) ELSE t

RECURSIVE RStrip(_)
RStrip(t) ==
    IF t # <<>> /\ t[Len(t)] \in SpaceChars
    THEN RStrip(SubSeq(t, 1, Len(t) - 1))
    ELSE t

\* str.strip() on a text
StripText(t) == RStrip(LStrip(t))

IsDigit(c) == c \in Range(DigitChars)
DigitVal(c) == (CHOOSE i \in DOMAIN DigitChars : DigitChars[i] = c) - 1

RECURSIVE Pow10(_)
Pow10(e) == IF e = 0 THEN 1 ELSE 10 * Pow10(e - 1)

RECURSIVE DigitsVal(_)
DigitsVal(t) ==
    IF t = <<>> THEN 0
    ELSE 10 * DigitsVal(SubSeq(t, 1, Len(t) - 1)) + DigitVal(t[Len(t)])

RECURSIVE NatText(_)
NatText(n) ==
    IF n < 10 THEN << DigitChars[n + 1] >>
    ELSE Append(NatText(n \div 10), DigitChars[(n % 10) + 1])

----------------------------------------------------------------------------
(* Cells *)

NaN         == << "NaN" >>
Str(t)      == << "str", t >>
IntVal(m)      == << "int", m >>
FloatVal(m, e) == << "float", m, e >>
IsStr(c)    == c[1] = "str"
IsInt(c)    == c[1] = "int"
IsFloat(c)  == c[1] = "float"

----------------------------------------------------------------------------
(* pd.read_csv(input_file, dtype=str), line 44 *)

\* The texts read_csv reads as missing (its default na_values); dtype=str
\* does not switch this off.
NaValues ==
    { <<>>,
      << "#","N","/","A" >>,
      << "#","N","/","A"," ","N","/","A" >>,
      << "#","N","A" >>,
      << "-","1",".","#","I","N","D" >>,
      << "-","1",".","#","Q","N","A","N" >>,
      << "-","N","a","N" >>,
      << "-","n","a","n" >>,
      << "1",".","#","I","N","D" >>,
      << "1",".","#","Q","N","A","N" >>,
      << "<","N","A",">" >>,
      << "N","/","A" >>,
      << "N","A" >>,
      << "N","U","L","L" >>,
      << "N","a","N" >>,
      << "N","o","n","e" >>,
      << "n","/","a" >>,
      << "n","a","n" >>,
      << "n","u","l","l" >> }

ReadCell(t) == IF t \in NaValues THEN NaN ELSE Str(t)

\* The DataFrame of a table: the header's columns in the header's order, all
\* of dtype object, one row per record with its index label (its position).
read_csv(tbl) ==
    [ columns |-> tbl.header,
      dtypes  |-> [ c \in Range(tbl.header) |-> "object" ],
      rows    |-> [ i \in DOMAIN tbl.rows |->
                      [ idx   |-> i,
                        cells |-> [ c \in Range(tbl.header) |->
                                      ReadCell(tbl.rows[i][c]) ] ] ] ]

----------------------------------------------------------------------------
(* DataFrame operations used by main() *)

\* df[name]
Col(t, name) == [ i \in DOMAIN t.rows |-> t.rows[i].cells[name] ]

\* df[name] = cells: an existing column is replaced in place, a new one is
\* appended after the others.
SetCol(t, name, cells, dtype) ==
    LET cols == IF name \in Range(t.columns) THEN t.columns
                ELSE Append(t.columns, name)
    IN  [ columns |-> cols,
          dtypes  |-> [ c \in Range(cols) |->
                          IF c = name THEN dtype ELSE t.dtypes[c] ],
          rows    |-> [ i \in DOMAIN t.rows |->
                          [ idx   |-> t.rows[i].idx,
                            cells |-> [ c \in Range(cols) |->
                                          IF c = name THEN cells[i]
                                          ELSE t.rows[i].cells[c] ] ] ] ]

RECURSIVE SelectRows(_, _)
SelectRows(rows, mask) ==
    IF rows = <<>> THEN <<>>
    ELSE IF Head(mask)
         THEN << Head(rows) >> \o SelectRows(Tail(rows), Tail(mask))
         ELSE SelectRows(Tail(rows), Tail(mask))

RECURSIVE Reverse(_)
Reverse(s) == IF s = <<>> THEN <<>> ELSE Append(Reverse(Tail(s)), Head(s))

\* A mutant of BoolIndex: the selected rows come out newest first.
BoolIndexReversed(t, mask) ==
    [ t EXCEPT !.rows = Reverse(SelectRows(t.rows, mask)) ]

\* df[mask]: the rows whose mask entry is True, in the frame's order, each
\* keeping its index label.
BoolIndex(t, mask) == [ t EXCEPT !.rows = SelectRows(t.rows, mask) ]

\* Series.str.upper(), Series.str.strip(): a missing value stays missing.
StrUpper(c) == IF IsStr(c) THEN Str(UpperText(c[2])) ELSE NaN
StrStrip(c) == IF IsStr(c) THEN Str(StripText(c[2])) ELSE NaN

\* Series.isin(values): a missing value is in no set of texts.
IsIn(c, values) == IsStr(c) /\ c[2] \in values

\* Series != text: a missing value differs from every text.
NotEqual(c, t) == ~ (IsStr(c) /\ c[2] = t)

----------------------------------------------------------------------------
(* pd.to_numeric(series, errors="coerce"), line 60 *)

AllDigits(t) == \A i \in DOMAIN t : IsDigit(t[i])

\* Position of the first "." of t, or 0.
DotAt(t) ==
    IF \E i \in DOMAIN t : t[i] = "."
    THEN CHOOSE i \in DOMAIN t : t[i] = "." /\ \A j \in 1..(i - 1) : t[j] # "."
    ELSE 0

\* A text without surrounding whitespace: an optional sign, decimal digits
\* with at most one ".", at least one digit. Anything else is coerced to NaN.
\* (Exponents and the spellings of infinity are outside the modelled inputs.)
ParseStripped(s) ==
    LET neg  == s # <<>> /\ s[1] = "-"
        body == IF s # <<>> /\ s[1] \in { "+", "-" } THEN Tail(s) ELSE s
        dot  == DotAt(body)
        ip   == IF dot = 0 THEN body ELSE SubSeq(body, 1, dot - 1)
        fp   == IF dot = 0 THEN <<>> ELSE SubSeq(body, dot + 1, Len(body))
        mag  == DigitsVal(ip \o fp)
        m    == IF neg THEN 0 - mag ELSE mag
    IN  IF AllDigits(ip) /\ AllDigits(fp) /\ Len(ip) + Len(fp) >= 1
        THEN IF dot = 0 THEN IntVal(m) ELSE FloatVal(m, Len(fp))
        ELSE NaN

\* One text: the parser skips the whitespace around the number. (The text
\* is stripped once, and the stripped text parsed.)
ParseNum(t) == CHOOSE v \in { ParseStripped(s) : s \in { StripText(t) } } : TRUE

ToNumericCell(c) == IF IsStr(c) THEN ParseNum(c[2]) ELSE NaN

\* The converted column is int64 when every value parsed as an integer, and
\* float64 otherwise (a NaN or a decimal point makes the column float).
NumericDtype(cells) ==
    IF \A i \in DOMAIN cells : IsInt(ToNumericCell(cells[i]))
    THEN "int64" ELSE "float64"

to_numeric(cells) ==
    [ i \in DOMAIN cells |->
        LET v == ToNumericCell(cells[i])
        IN  IF NumericDtype(cells) = "float64" /\ IsInt(v)
            THEN FloatVal(v[2], 0) ELSE v ]

\* A mutant of GreaterThan1: the comparison is >= 1.
GreaterOrEqual1(c) ==
    \/ IsInt(c) /\ c[2] >= 1
    \/ IsFloat(c) /\ c[2] >= Pow10(c[3])

\* series > 1: NaN compares False.
GreaterThan1(c) ==
    \/ IsInt(c) /\ c[2] > 1
    \/ IsFloat(c) /\ c[2] > Pow10(c[3])

----------------------------------------------------------------------------
(* DataFrame.to_csv(path, index=False), line 94 *)

RECURSIVE StripZeros(_)
StripZeros(t) ==
    IF t # <<>> /\ t[Len(t)] = "0"
    THEN StripZeros(SubSeq(t, 1, Len(t) - 1)) ELSE t

RECURSIVE PadLeft(_, _)
PadLeft(t, n) == IF Len(t) >= n THEN t ELSE PadLeft(<< "0" >> \o t, n)

Abs(n) == IF n < 0 THEN 0 - n ELSE n
SignText(n) == IF n < 0 THEN << "-" >> ELSE <<>>

\* The text of a float64 value: its shortest decimal form, with at least
\* one digit after the point.
FloatText(m, e) ==
    LET ip   == Abs(m) \div Pow10(e)
        fp   == Abs(m) % Pow10(e)
        frac == IF e = 0 THEN <<>> ELSE StripZeros(PadLeft(NatText(fp), e))
    IN  SignText(m) \o NatText(ip) \o << "." >>
            \o (IF frac = <<>> THEN << "0" >> ELSE frac)

\* The text to_csv writes for a cell; a missing value is written empty.
CellText(c) ==
    IF IsStr(c) THEN c[2]
    ELSE IF IsInt(c) THEN SignText(c[2]) \o NatText(Abs(c[2]))
    ELSE IF IsFloat(c) THEN FloatText(c[2], c[3])
    ELSE <<>>

\* The line of row k of frame t restricted to the columns cols.
CsvLine(t, cols, k) == [ j \in DOMAIN cols |-> CellText(t.rows[k].cells[cols[j]]) ]

----------------------------------------------------------------------------
(* The input tables the model draws from *)

EXTRA_COL == "Notes"

HeaderCanonical ==
    << "First Name", "Middle Initial", "Last Name", "Requester Return Field",
       "College Name", "Enrollment Major 1", "Class Level",
       "Enrollment Status", "Enrollment End", "College Sequence", "Graduated?" >>

\* Every required column, in another order, with two extra columns (one of
\* them named like a derived column).
HeaderShuffled ==
    << COL_GRADUATED, EXTRA_COL, COL_COLLEGE_SEQ, COL_ENROLL_DATE,
       COL_ENROLL_STATUS, STATUS_NORM, COL_CLASS_LEVEL, COL_ENROLLMENT_MAJOR,
       COL_COLLEGE_NAME, COL_REQUESTER_ID, COL_LAST_NAME, COL_MIDDLE_NAME,
       COL_FIRST_NAME >>

HeaderNoGraduated ==
    << "First Name", "Middle Initial", "Last Name", "Requester Return Field",
       "College Name", "Enrollment Major 1", "Class Level",
       "Enrollment Status", "Enrollment End", "College Sequence" >>

HeaderNoSeqNoStatus ==
    << COL_FIRST_NAME, COL_MIDDLE_NAME, COL_LAST_NAME, COL_REQUESTER_ID,
       COL_COLLEGE_NAME, COL_ENROLLMENT_MAJOR, COL_CLASS_LEVEL,
       COL_ENROLL_DATE, COL_GRADUATED, EXTRA_COL >>

Headers == { HeaderCanonical, HeaderShuffled, HeaderNoGraduated, HeaderNoSeqNoStatus }

AllCols == UNION { Range(h) : h \in Headers }

\* [seq, status, grad, mi]: the texts of College Sequence, Enrollment Status,
\* Graduated? and Middle Initial of a sample record.
Sample(seq, status, grad, mi) ==
    [ seq |-> seq, status |-> status, grad |-> grad, mi |-> mi ]

SampleRows ==
    { Sample(<< "2" >>,             << "E" >>,           << "N" >>,      << "A" >>),
      Sample(<< "2" >>,             << "w" >>,           << "N" >>,      << "B" >>),
      Sample(<< "1" >>,             << "E" >>,           << "N" >>,      << "C" >>),
      Sample(<< "3" >>,             << "E" >>,           << "y" >>,      << "D" >>),
      Sample(<< "a","b","c" >>,     << "E" >>,           << "N" >>,      << "E" >>),
      Sample(<< "2" >>,             <<>>,                <<>>,           <<>>),
      Sample(<<>>,                  << "E" >>,           << "N" >>,      << "G" >>),
      Sample(<< " ","2",".","5","0" >>, << " ","d"," " >>, << "N" >>,    << "H" >>),
      Sample(<< "2",".","0" >>,     << "e" >>,           << " ","n" >>,  << "I" >>),
      Sample(<< "1","0" >>,         <<>>,                << "Y"," " >>,  << "K" >>),
      Sample(<< "1",".","5" >>,     << "N","A" >>,       <<>>,           << "N","A" >>) }

\* The sample records of the termination check.
LiveSampleRows ==
    { Sample(<< "2" >>,             << "E" >>,           << "N" >>,      << "A" >>),
      Sample(<< "1" >>,             << "E" >>,           << "N" >>,      << "C" >>),
      Sample(<< "2" >>,             <<>>,                <<>>,           <<>>),
      Sample(<< "1",".","5" >>,     << "N","A" >>,       <<>>,           << "N","A" >>) }

\* The text of column c in the record made from a sample.
FieldText(r, c) ==
    CASE c = COL_COLLEGE_SEQ   -> r.seq
      [] c = COL_ENROLL_STATUS -> r.status
      [] c = COL_GRADUATED     -> r.grad
      [] c = COL_MIDDLE_NAME   -> r.mi
      [] c = COL_FIRST_NAME    -> << "A","n","a" >>
      [] c = COL_LAST_NAME     -> << "d","e"," ","W" >>
      [] c = STATUS_NORM       -> << "W" >>
      [] OTHER                 -> << "x", " " >>

RECURSIVE SeqsUpTo(_, _)
SeqsUpTo(S, n) ==
    IF n = 0 THEN { <<>> }
    ELSE LET shorter == SeqsUpTo(S, n - 1)
         IN  shorter \cup { Append(q, x) : q \in shorter, x \in S }

\* The tables of at most MaxRows records made from the samples S.
Tables(S) ==
    { [ header |-> h,
        rows   |-> [ i \in DOMAIN q |-> [ c \in Range(h) |-> FieldText(q[i], c) ] ] ] :
      h \in Headers, q \in SeqsUpTo(S, MaxRows) }

Inputs     == Tables(SampleRows)
LiveInputs == Tables(LiveSampleRows)

----------------------------------------------------------------------------
(* main(), lines 41-95 *)

\* DEBUG, line 38. A run is named by its value of DEBUG.
DEBUG == TRUE
Runs  == BOOLEAN

FinalPcs == { "done", "failed" }

NoError    == << "none" >>
OSError    == << "OSError" >>
KeyError   == << "KeyError" >>
ValueError(missing) == << "ValueError", "Missing expected columns", missing >>

EmptyFrame == [ columns |-> <<>>, dtypes |-> <<>>, rows |-> <<>> ]
NoFile     == [ exists |-> FALSE, header |-> <<>>, rows |-> <<>>, closed |-> FALSE ]

\* The I/O operations of a run are numbered as it attempts them: read_csv,
\* opening the output, writing the header, writing each row.
FaultPoints == 0 .. (MaxRows + 3)
IOFails(d)  == ioCount[d] + 1 = ioFault

\* if DEBUG: print(...)
DebugPrint(d, line) == IF d THEN Append(stdout[d], line) ELSE stdout[d]

\* The value of line 61 and of line 62: series.str.upper().str.strip()
UpperStrip(cells) == [ i \in DOMAIN cells |-> StrStrip(StrUpper(cells[i])) ]

\* Line 65
mask_seq_gt1(t) ==
    LET seq == Col(t, COL_COLLEGE_SEQ)
    IN  [ i \in DOMAIN seq |-> GreaterThan1(seq[i]) ]

\* A mutant of mask_status: a missing status is masked out.
mask_status_strict(t) ==
    LET st == Col(t, STATUS_NORM)
    IN  [ i \in DOMAIN st |-> IsStr(st[i]) /\ ~ IsIn(st[i], { << "W" >>, << "D" >> }) ]

\* Line 66
mask_status(t) ==
    LET st == Col(t, STATUS_NORM)
    IN  [ i \in DOMAIN st |-> ~ IsIn(st[i], { << "W" >>, << "D" >> }) ]

\* Line 68
Stage1(t) ==
    LET a == mask_seq_gt1(t)
        b == mask_status(t)
    IN  BoolIndex(t, [ i \in DOMAIN t.rows |-> a[i] /\ b[i] ])

\* Line 74
Stage2(t) ==
    LET gr == Col(t, COL_GRADUATED)
    IN  BoolIndex(t, [ i \in DOMAIN gr |->
                         NotEqual(UpperStrip(gr)[i], << "Y" >>) ])

Step(d, name) == trace' = [ trace EXCEPT ![d] = Append(@, name) ]

\* A mutant of Load: a failed read is tried again.
LoadRetry(d) ==
    /\ pc[d] = "start"
    /\ d # DEBUG => pc[DEBUG] \in FinalPcs
    /\ Step(d, "load")
    /\ stdout' = [ stdout EXCEPT ![d] = Append(@, << "Reading CSV" >>) ]
    /\ ioCount' = [ ioCount EXCEPT ![d] = @ + 1 ]
    /\ IF IOFails(d)
       THEN UNCHANGED << pc, error, df >>
       ELSE /\ df' = [ df EXCEPT ![d] = read_csv(input) ]
            /\ pc' = [ pc EXCEPT ![d] = "check" ]
            /\ UNCHANGED error
    /\ UNCHANGED << input, ioFault, df_final, outFile >>

\* Lines 42-44. The runs share nothing; the run with the other value of
\* DEBUG starts once the program's own run has ended.
Load(d) ==
    /\ pc[d] = "start"
    /\ d # DEBUG => pc[DEBUG] \in FinalPcs
    /\ Step(d, "load")
    /\ stdout' = [ stdout EXCEPT ![d] = Append(@, << "Reading CSV" >>) ]
    /\ ioCount' = [ ioCount EXCEPT ![d] = @ + 1 ]
    /\ IF IOFails(d)
       THEN /\ error' = [ error EXCEPT ![d] = OSError ]
            /\ pc' = [ pc EXCEPT ![d] = "failed" ]
            /\ UNCHANGED df
       ELSE /\ df' = [ df EXCEPT ![d] = read_csv(input) ]
            /\ pc' = [ pc EXCEPT ![d] = "check" ]
            /\ UNCHANGED error
    /\ UNCHANGED << input, ioFault, df_final, outFile >>

\* Lines 46-57
SchemaCheck(d) ==
    LET NotThere(c) == c \notin Range(df[d].columns)
        missing     == SelectSeq(required_cols, NotThere)
    IN  /\ pc[d] = "check"
        /\ Step(d, "check")
        /\ IF missing # <<>>
           THEN /\ error' = [ error EXCEPT ![d] = ValueError(missing) ]
                /\ pc' = [ pc EXCEPT ![d] = "failed" ]
                /\ UNCHANGED stdout
           ELSE /\ stdout' = [ stdout EXCEPT ![d] =
                                DebugPrint(d, << "Total rows:", Len(df[d].rows) >>) ]
                /\ pc' = [ pc EXCEPT ![d] = "normalize" ]
                /\ UNCHANGED error
        /\ UNCHANGED << input, ioFault, df, df_final, outFile, ioCount >>

\* raise exc: the run ends with the exception exc.
Raise(d, exc) ==
    /\ error' = [ error EXCEPT ![d] = exc ]
    /\ pc' = [ pc EXCEPT ![d] = "failed" ]

\* Line 60. Reading a column the frame lacks raises KeyError.
NormalizeSeq(d) ==
    /\ pc[d] = "normalize"
    /\ Step(d, "normalize")
    /\ IF COL_COLLEGE_SEQ \in Range(df[d].columns)
       THEN /\ df' = [ df EXCEPT ![d] =
                         SetCol(@, COL_COLLEGE_SEQ,
                                to_numeric(Col(@, COL_COLLEGE_SEQ)),
                                NumericDtype(Col(@, COL_COLLEGE_SEQ))) ]
            /\ pc' = [ pc EXCEPT ![d] = "norm_status" ]
            /\ UNCHANGED error
       ELSE Raise(d, KeyError) /\ UNCHANGED df
    /\ UNCHANGED << input, ioFault, df_final, outFile, stdout, ioCount >>

\* Line 61
NormalizeStatus(d) ==
    /\ pc[d] = "norm_status"
    /\ IF COL_ENROLL_STATUS \in Range(df[d].columns)
       THEN /\ df' = [ df EXCEPT ![d] =
                         SetCol(@, STATUS_NORM,
                                UpperStrip(Col(@, COL_ENROLL_STATUS)), "object") ]
            /\ pc' = [ pc EXCEPT ![d] = "norm_grad" ]
            /\ UNCHANGED error
       ELSE Raise(d, KeyError) /\ UNCHANGED df
    /\ UNCHANGED << input, ioFault, df_final, outFile, stdout, ioCount, trace >>

\* Line 62
NormalizeGrad(d) ==
    /\ pc[d] = "norm_grad"
    /\ IF COL_GRADUATED \in Range(df[d].columns)
       THEN /\ df' = [ df EXCEPT ![d] =
                         SetCol(@, GRAD_NORM,
                                UpperStrip(Col(@, COL_GRADUATED)), "object") ]
            /\ pc' = [ pc EXCEPT ![d] = "filter1" ]
            /\ UNCHANGED error
       ELSE Raise(d, KeyError) /\ UNCHANGED df
    /\ UNCHANGED << input, ioFault, df_final, outFile, stdout, ioCount, trace >>

\* A mutant of FilterStage1: the diagnostic block also cuts the table.
FilterStage1Debugged(d) ==
    /\ pc[d] = "filter1"
    /\ Step(d, "filter1")
    /\ df_final' = [ df_final EXCEPT ![d] =
                       IF d /\ Stage1(df[d]).rows # <<>>
                       THEN [ Stage1(df[d]) EXCEPT !.rows = Tail(@) ]
                       ELSE Stage1(df[d]) ]
    /\ stdout' = [ stdout EXCEPT ![d] =
                     DebugPrint(d, << "Rows after seq>1 & status filters:",
                                      Len(df_final'[d].rows) >>) ]
    /\ pc' = [ pc EXCEPT ![d] = "filter2" ]
    /\ UNCHANGED << input, ioFault, df, outFile, error, ioCount >>

\* Lines 64-71
FilterStage1(d) ==
    /\ pc[d] = "filter1"
    /\ Step(d, "filter1")
    /\ df_final' = [ df_final EXCEPT ![d] = Stage1(df[d]) ]
    /\ stdout' = [ stdout EXCEPT ![d] =
                     DebugPrint(d, << "Rows after seq>1 & status filters:",
                                      Len(df_final'[d].rows) >>) ]
    /\ pc' = [ pc EXCEPT ![d] = "filter2" ]
    /\ UNCHANGED << input, ioFault, df, outFile, error, ioCount >>

\* Lines 73-77
FilterStage2(d) ==
    /\ pc[d] = "filter2"
    /\ Step(d, "filter2")
    /\ df_final' = [ df_final EXCEPT ![d] = Stage2(@) ]
    /\ stdout' = [ stdout EXCEPT ![d] =
                     DebugPrint(d, << "Rows after removing Graduated=Y:",
                                      Len(df_final'[d].rows) >>) ]
    /\ pc' = [ pc EXCEPT ![d] = "write" ]
    /\ UNCHANGED << input, ioFault, df, outFile, error, ioCount >>

\* Line 94, first part: df_final[output_cols] and opening the output file,
\* which creates it empty.
OpenOut(d) ==
    /\ pc[d] = "write"
    /\ Step(d, "write")
    /\ IF ~ (Range(output_cols) \subseteq Range(df_final[d].columns))
       THEN /\ error' = [ error EXCEPT ![d] = KeyError ]
            /\ pc' = [ pc EXCEPT ![d] = "failed" ]
            /\ UNCHANGED << outFile, ioCount >>
       ELSE /\ ioCount' = [ ioCount EXCEPT ![d] = @ + 1 ]
            /\ IF IOFails(d)
               THEN /\ error' = [ error EXCEPT ![d] = OSError ]
                    /\ pc' = [ pc EXCEPT ![d] = "failed" ]
                    /\ UNCHANGED outFile
               ELSE /\ outFile' = [ outFile EXCEPT ![d] = [ NoFile EXCEPT !.exists = TRUE ] ]
                    /\ pc' = [ pc EXCEPT ![d] = "header" ]
                    /\ UNCHANGED error
    /\ UNCHANGED << input, ioFault, df, df_final, stdout >>

\* Line 94: to_csv writes the header line (index=False: no index column).
WriteHeader(d) ==
    /\ pc[d] = "header"
    /\ ioCount' = [ ioCount EXCEPT ![d] = @ + 1 ]
    /\ IF IOFails(d)
       THEN /\ error' = [ error EXCEPT ![d] = OSError ]
            /\ pc' = [ pc EXCEPT ![d] = "failed" ]
            /\ UNCHANGED outFile
       ELSE /\ outFile' = [ outFile EXCEPT ![d].header = output_cols ]
            /\ pc' = [ pc EXCEPT ![d] = "rows" ]
            /\ UNCHANGED error
    /\ UNCHANGED << input, ioFault, df, df_final, stdout, trace >>

\* Line 94: to_csv writes the next row of df_final[output_cols].
WriteRow(d) ==
    /\ pc[d] = "rows"
    /\ Len(outFile[d].rows) < Len(df_final[d].rows)
    /\ ioCount' = [ ioCount EXCEPT ![d] = @ + 1 ]
    /\ IF IOFails(d)
       THEN /\ error' = [ error EXCEPT ![d] = OSError ]
            /\ pc' = [ pc EXCEPT ![d] = "failed" ]
            /\ UNCHANGED outFile
       ELSE /\ outFile' = [ outFile EXCEPT ![d].rows =
                              Append(@, CsvLine(df_final[d], output_cols, Len(@) + 1)) ]
            /\ UNCHANGED << pc, error >>
    /\ UNCHANGED << input, ioFault, df, df_final, stdout, trace >>

\* Lines 94-95: the file is closed and the confirmation printed.
CloseOut(d) ==
    /\ pc[d] = "rows"
    /\ Len(outFile[d].rows) = Len(df_final[d].rows)
    /\ outFile' = [ outFile EXCEPT ![d].closed = TRUE ]
    /\ stdout' = [ stdout EXCEPT ![d] = Append(@, << "Output written" >>) ]
    /\ pc' = [ pc EXCEPT ![d] = "done" ]
    /\ UNCHANGED << input, ioFault, df, df_final, error, ioCount, trace >>

InitRun ==
    /\ ioFault \in FaultPoints
    /\ df = [ d \in Runs |-> EmptyFrame ]
    /\ df_final = [ d \in Runs |-> EmptyFrame ]
    /\ outFile = [ d \in Runs |-> NoFile ]
    /\ error = [ d \in Runs |-> NoError ]
    /\ stdout = [ d \in Runs |-> <<>> ]
    /\ ioCount = [ d \in Runs |-> 0 ]
    /\ trace = [ d \in Runs |-> <<>> ]

\* The program as written: one run, with DEBUG = True.
Init ==
    /\ input \in Inputs
    /\ InitRun
    /\ pc = [ d \in Runs |-> IF d = DEBUG THEN "start" ELSE "off" ]

\* The program's run followed by a run with the other value of DEBUG, on
\* the same input and under the same I/O fault.
InitPair ==
    /\ input \in Inputs
    /\ InitRun
    /\ pc = [ d \in Runs |-> "start" ]

Next ==
    \E d \in Runs :
        \/ Load(d)
        \/ SchemaCheck(d)
        \/ NormalizeSeq(d)
        \/ NormalizeStatus(d)
        \/ NormalizeGrad(d)
        \/ FilterStage1(d)
        \/ FilterStage2(d)
        \/ OpenOut(d)
        \/ WriteHeader(d)
        \/ WriteRow(d)
        \/ CloseOut(d)

Spec == Init /\ [][Next]_vars

\* The program's run on the tables of the termination check.
InitLive ==
    /\ input \in LiveInputs
    /\ InitRun
    /\ pc = [ d \in Runs |-> IF d = DEBUG THEN "start" ELSE "off" ]

\* main() is straight-line code on one thread: a run that can take a step
\* takes it.
SpecLive == InitLive /\ [][Next]_vars /\ WF_vars(Next)

SpecPair == InitPair /\ [][Next]_vars

----------------------------------------------------------------------------
(* Vocabulary of the properties *)

\* The eleven columns of the output contract, in its order.
ElevenColumns ==
    << "First Name", "Middle Initial", "Last Name", "Requester Return Field",
       "College Name", "Enrollment Major 1", "Class Level",
       "Enrollment Status", "Enrollment End", "College Sequence", "Graduated?" >>

HeaderLacksColumn == \E c \in Range(ElevenColumns) : c \notin Range(input.header)

Did(d, name) == \E i \in DOMAIN trace[d] : trace[d][i] = name

\* The text parses as a number and the number is strictly greater than 1.
NumberAbove1(t) ==
    LET n == ParseNum(t)
    IN  \/ n[1] = "int" /\ n[2] > 1
        \/ n[1] = "float" /\ n[2] > Pow10(n[3])

Normalized(t) == StripText(UpperText(t))

\* The eligibility predicate on a record of the input.
Eligible(r) ==
    /\ NumberAbove1(r["College Sequence"])
    /\ Normalized(r["Enrollment Status"]) \notin { << "W" >>, << "D" >> }
    /\ Normalized(r["Graduated?"]) # << "Y" >>

\* Input positions of the rows df_final holds, and of the rows written.
KeptPositions(d)    == { df_final[d].rows[k].idx : k \in DOMAIN df_final[d].rows }
WrittenPositions(d) == { df_final[d].rows[k].idx : k \in DOMAIN outFile[d].rows }

IsPrefix(s, t) == Len(s) <= Len(t) /\ \A i \in DOMAIN s : s[i] = t[i]

----------------------------------------------------------------------------
(* Properties *)

\* C1: whenever the header has the eleven columns, a record is among the
\* rows kept after both filter stages, and among the rows of a completely
\* written output, iff its College Sequence parses as a number above 1, its
\* normalized status is neither W nor D and its normalized graduated flag is
\* not Y; no other record is ever written. In particular "1", "abc", empty,
\* status "w" and graduated "y" are never written, "2"/"E"/"N" always is.
C1_ConjunctiveFilter ==
    \A d \in Runs : \A i \in DOMAIN input.rows :
        LET r == input.rows[i]
        IN  ~ HeaderLacksColumn =>
              /\ Did(d, "filter2") => (i \in KeptPositions(d) <=> Eligible(r))
              /\ pc[d] = "done" => (i \in WrittenPositions(d) <=> Eligible(r))
              /\ i \in WrittenPositions(d) => Eligible(r)
              /\ ( \/ r["College Sequence"] \in { << "1" >>, << "a","b","c" >>, <<>> }
                   \/ r["Enrollment Status"] = << "w" >>
                   \/ r["Graduated?"] = << "y" >> )
                 => i \notin WrittenPositions(d)
              /\ ( /\ r["College Sequence"] = << "2" >>
                   /\ r["Enrollment Status"] = << "E" >>
                   /\ r["Graduated?"] = << "N" >>
                   /\ pc[d] = "done" )
                 => i \in WrittenPositions(d)

C1_Witness ==
    /\ pc[DEBUG] = "done"
    /\ Len(input.rows) = 2
    /\ input.rows[1]["College Sequence"] = << "1" >>
    /\ Eligible(input.rows[2])
    /\ WrittenPositions(DEBUG) = { 2 }

\* C2: when the header lacks one of the eleven columns, the run never
\* normalizes, filters or writes, the output file never exists, the run never
\* completes, and once the header check has run the run has failed with the
\* missing-columns error naming exactly the absent columns.
C2_SchemaGate ==
    \A d \in Runs :
        HeaderLacksColumn =>
            /\ ~ outFile[d].exists
            /\ ~ Did(d, "normalize") /\ ~ Did(d, "filter1")
            /\ ~ Did(d, "filter2") /\ ~ Did(d, "write")
            /\ pc[d] # "done"
            /\ Did(d, "check") =>
                 /\ pc[d] = "failed"
                 /\ error[d][1] = "ValueError"
                 /\ Range(error[d][3]) = Range(ElevenColumns) \ Range(input.header)

C2_Witness ==
    /\ HeaderLacksColumn
    /\ input.rows # <<>>
    /\ pc[DEBUG] = "failed"
    /\ error[DEBUG][1] = "ValueError"

\* C3: the rows kept, and the rows written, are a subsequence of the input:
\* their input positions are strictly increasing (so no position repeats and
\* relative order is preserved), and the k-th line written is the line of
\* the k-th kept position.
C3_StableFilter ==
    \A d \in Runs :
        LET kept == df_final[d].rows
        IN  /\ \A k \in DOMAIN kept : kept[k].idx \in DOMAIN input.rows
            /\ \A k, l \in DOMAIN kept : k < l => kept[k].idx < kept[l].idx
            /\ Len(outFile[d].rows) <= Len(kept)
            /\ \A k \in DOMAIN outFile[d].rows : \A j \in DOMAIN ElevenColumns :
                 ElevenColumns[j] # "College Sequence" =>
                     outFile[d].rows[k][j] =
                         CellText(ReadCell(input.rows[kept[k].idx][ElevenColumns[j]]))

C3_Witness ==
    /\ pc[DEBUG] = "done"
    /\ Len(outFile[DEBUG].rows) = 2
    /\ outFile[DEBUG].rows[1] # outFile[DEBUG].rows[2]

\* C4: whatever the order of the input's columns and whatever extra columns
\* it has, the header written is exactly the eleven columns in the contract's
\* order, every line written has eleven fields, and field j of a line is the
\* row's value of column j of the contract.
C4_Projection ==
    \A d \in Runs :
        /\ outFile[d].header \in { <<>>, ElevenColumns }
        /\ pc[d] \in { "rows", "done" } => outFile[d].header = ElevenColumns
        /\ \A k \in DOMAIN outFile[d].rows :
             /\ Len(outFile[d].rows[k]) = 11
             /\ \A j \in DOMAIN ElevenColumns :
                  outFile[d].rows[k][j] =
                      CellText(df_final[d].rows[k].cells[ElevenColumns[j]])

C4_Witness ==
    /\ pc[DEBUG] = "done"
    /\ input.header = HeaderShuffled
    /\ Len(outFile[DEBUG].rows) = 2

\* C5: for every line written and every output column other than College
\* Sequence, the field written is the original text of that field in the
\* input record.
C5_Verbatim ==
    \A d \in Runs : \A k \in DOMAIN outFile[d].rows : \A j \in DOMAIN ElevenColumns :
        ElevenColumns[j] # "College Sequence" =>
            outFile[d].rows[k][j] =
                input.rows[df_final[d].rows[k].idx][ElevenColumns[j]]

\* C6: a run that has ended left the output file either absent or complete
\* (closed, with its header and every surviving row).
C6_AllOrNothing ==
    \A d \in Runs :
        pc[d] \in FinalPcs =>
            \/ ~ outFile[d].exists
            \/ /\ outFile[d].closed
               /\ outFile[d].header = ElevenColumns
               /\ Len(outFile[d].rows) = Len(df_final[d].rows)

\* C8: once the run with DEBUG = True and the run with DEBUG = False have
\* both ended, on the same input and under the same I/O fault, they ended the
\* same way, with the same tables and the same output file.
C8_DebugNoninterference ==
    (pc[TRUE] \in FinalPcs /\ pc[FALSE] \in FinalPcs) =>
        /\ pc[TRUE] = pc[FALSE]
        /\ error[TRUE] = error[FALSE]
        /\ df[TRUE] = df[FALSE]
        /\ df_final[TRUE] = df_final[FALSE]
        /\ outFile[TRUE] = outFile[FALSE]

C8_Witness ==
    /\ pc[TRUE] = "done" /\ pc[FALSE] = "done"
    /\ Len(stdout[TRUE]) = 5 /\ Len(stdout[FALSE]) = 2
    /\ Len(input.rows) = 2
    /\ Len(outFile[FALSE].rows) = 1

\* C9: a record whose Enrollment Status or Graduated? cell is empty raises
\* no error in normalization or comparison (a run fails only on I/O), the
\* empty cell matches no rule, and the record is kept iff its College
\* Sequence is a number above 1 and its other, non-empty flag does not
\* exclude it.
C9_EmptyCells ==
    \A d \in Runs :
        ~ HeaderLacksColumn =>
            /\ error[d] \in { NoError, OSError }
            /\ \A i \in DOMAIN input.rows :
                 LET r  == input.rows[i]
                     st == r["Enrollment Status"]
                     gr == r["Graduated?"]
                 IN  (Did(d, "filter2") /\ (st = <<>> \/ gr = <<>>)) =>
                       ( i \in KeptPositions(d) <=>
                           /\ NumberAbove1(r["College Sequence"])
                           /\ st = <<>> \/ Normalized(st) \notin { << "W" >>, << "D" >> }
                           /\ gr = <<>> \/ Normalized(gr) # << "Y" >> )

C9_Witness ==
    /\ pc[DEBUG] = "done"
    /\ \E i \in DOMAIN input.rows :
         /\ input.rows[i]["Enrollment Status"] = <<>>
         /\ input.rows[i]["Graduated?"] = <<>>
         /\ i \in WrittenPositions(DEBUG)
    /\ \E i \in DOMAIN input.rows :
         /\ input.rows[i]["Enrollment Status"] = <<>>
         /\ i \notin KeptPositions(DEBUG)

PipelineSteps == << "load", "check", "normalize", "filter1", "filter2", "write" >>

PipelineOrder ==
    \A d \in Runs :
        /\ IsPrefix(trace[d], PipelineSteps)
        /\ outFile[d].exists => trace[d] = PipelineSteps
        /\ Len(outFile[d].rows) <= Len(df_final[d].rows)
        /\ pc[d] = "done" => (error[d] = NoError /\ outFile[d].closed)
        /\ pc[d] = "failed" => error[d] # NoError

\* C10: the steps a run has executed are always a prefix of load, check,
\* normalize, filter 1, filter 2, write (each at most once, in this order);
\* the output exists only after all of them; and every run eventually ends,
\* in the written-output state or in a fatal error.
C10_OneShotPipeline == [] PipelineOrder /\ <> (pc[DEBUG] \in FinalPcs)

C10_Witness ==
    /\ pc[DEBUG] = "done"
    /\ trace[DEBUG] = PipelineSteps
    /\ Len(outFile[DEBUG].rows) = 2

====
